---- MODULE Spec2Model ----
(***************************************************************************)
(* tap-precoro: the extraction engine of the Precoro tap.                  *)
(*                                                                         *)
(*   SpecRequest  one process's outbound requests: the 1-second throttle   *)
(*                of _request, validate_response and the bounded retry     *)
(*                loop installed by request_decorator, against a clock.    *)
(*   SpecPaging   the runs one stream object makes, one after the other    *)
(*                (a child stream is run once per parent record): the      *)
(*                pagination loop around get_next_page_token.              *)
(*   SpecParams   get_url_params of every stream class, applied to the     *)
(*                configurations and bookmarks a run can start from.       *)
(*   SpecFilter   InvoicesStream.post_process, applied to the records a    *)
(*                page can hold.                                           *)
(***************************************************************************)
EXTENDS Integers, Sequences, FiniteSets, TLC

\* Python's None, for optional integers (page numbers, timestamps).
None == -1

Max(a, b) == IF a >= b THEN a ELSE b

(***************************************************************************)
(* Bounds of the model.                                                    *)
(***************************************************************************)
\* logical requests issued by one process
MaxRequests == 2
\* the configured maximum number of attempts of one logical request
backoff_max_tries == 2
\* the largest page number a server reports; a run is followed for at most
\* MaxPages + 1 page requests
MaxPages == 3
\* runs made by one stream object
MaxRuns == 2
\* the latest wall-clock reading of a configured or persisted timestamp
MaxTime == 2

\* seconds by which a sleep may overshoot; the latencies of the network; the
\* jittered waits of backoff between two attempts
Slack == {0, 1}

VARIABLES
    now,        \* wall clock, whole seconds
    rpc,        \* position of the request loop
    nreq,       \* logical requests started so far
    tries,      \* attempts made for the current logical request
    nSends,     \* sends of the process so far
    firstSend,  \* start time of the first send, None before it
    prevSend,   \* start time of the send before the last, None before it
    lastSend,   \* start time of the last send, None before it
    inflight,   \* requests sent and not yet answered
    resp,       \* the last response received
    recvAt,     \* the clock when validate_response read the last response
    outcome,    \* what validate_response did with it: [kind, wait]
    surfaced    \* the error that left the retry loop, "none" if none did

VARIABLES
    page,       \* the stream object's attribute self.page
    token,      \* next_page_token of the running loop
    ppc,        \* position of the pagination loop
    run,        \* runs started on the stream object so far
    startPage,  \* self.page when the current run started
    requested,  \* the page parameter of every logical request of the run
    attempts,   \* attempts made for the current logical request
    meta,       \* pagination metadata of the last response of the run
    nresp,      \* successful responses of the run so far
    inOrder,    \* they reported current_page 1, 2, ... of one total_pages
    remaining,  \* records of the last response not yet yielded
    budget,     \* records the server still holds
    raised      \* the error that ended the run, "none" if none did

VARIABLES
    emitted,    \* the records the parent stream has yielded, in order
    children,   \* the child sub-runs started, in order
    cpc,        \* position of the child sub-run
    cctx        \* the context of the pending child sub-run

VARIABLES
    config,     \* the tap's configuration (read-only)
    bookmark,   \* the persisted last-seen replication-key timestamp
    progress,   \* the replication-key value the run's records have written
                \* to the stream state so far, None before the first
    stream,     \* the stream whose get_url_params was called
    argToken,   \* the next_page_token it was called with
    params,     \* the query parameters it returned
    called      \* it has been called

VARIABLES
    export_condition_id,  \* InvoicesStream.export_condition_id
    row,        \* the record post_process was last called with
    result      \* what it did: "row" (returned it), "none", "error" (raised)

reqVars == <<now, rpc, nreq, tries, nSends, firstSend, prevSend, lastSend, inflight, resp, recvAt, outcome, surfaced>>
pageVars == <<page, token, ppc, run, startPage, requested, attempts, meta, nresp, inOrder, remaining, budget, raised>>
graVars == <<emitted, children, cpc, cctx>>
parVars == <<config, bookmark, progress, stream, argToken, params, called>>
filVars == <<export_condition_id, row, result>>
vars == <<reqVars, pageVars, parVars, filVars, graVars>>

\* A value of a custom field or of the configuration: its text, and whether
\* it is a JSON number rather than a string.
Value(v, n) == [v |-> v, numeric |-> n]

\* A record of the invoices endpoint, as far as the engine reads it.
\* dcf is the shape of dataDocumentCustomFields: "missing" (no such key, or
\* no "data" under it), "array" (a JSON array, as the schema allows) or
\* "object" with the list data; a field of data is the id of its
\* documentCustomField (None without one) and its value.
Field(i, val) == [cf_id |-> i, value |-> val]
Record(i, n, st, shape, d) == [id |-> i, idn |-> n, status |-> st, dcf |-> shape, data |-> d]
NoRow == Record(0, "-", 0, "missing", <<>>)

\* A child context: the key and the value get_child_context returns.
Context(k, v) == [key |-> k, value |-> v]
NoContext == Context("-", "-")

\* A timestamp is a wall-clock reading with its UTC offset; set is FALSE for
\* an absent one.
NoTime == [set |-> FALSE, wall |-> 0, off |-> 0]
Times == {[set |-> TRUE, wall |-> w, off |-> o] : w \in 1..MaxTime, o \in {0, 1}}
OptTimes == Times \cup {NoTime}
Instant(ts) == ts.wall - ts.off

\* A status name as written in the configuration, between the commas: the
\* name, whether it has upper-case letters, whether blanks surround it.
StatusName(n, u, b) == [name |-> n, upper |-> u, padded |-> b]

NoExportCondition == [set |-> FALSE, id |-> 0, castable |-> TRUE, value |-> "-", numeric |-> FALSE]

DefaultConfig ==
    [start_date |-> NoTime, all_invoices |-> FALSE, statuses |-> <<>>,
     supplier_status |-> <<>>, approval_date |-> NoTime,
     export_condition |-> NoExportCondition]

NoParams == [page |-> None, modifiedSince |-> None, has_status |-> FALSE,
             status |-> <<>>, approvalLeftDate |-> None]

\* pagination metadata: meta.pagination of the body when has is TRUE
NoMeta == [has |-> FALSE, current_page |-> 0, total_pages |-> 0]
Metas ==
    {NoMeta} \cup
    {[has |-> TRUE, current_page |-> c, total_pages |-> n] : c \in 0..MaxPages, n \in 0..MaxPages}

\* the variables of a part of the program that a specification leaves out
RequestIdle ==
    /\ now = 0 /\ rpc = "off" /\ nreq = 0 /\ tries = 0 /\ nSends = 0
    /\ firstSend = None /\ prevSend = None /\ lastSend = None /\ inflight = 0
    /\ recvAt = 0 /\ surfaced = "none"

ParamsIdle ==
    /\ config = DefaultConfig /\ bookmark = NoTime /\ progress = None
    /\ stream = "none"
    /\ argToken = None /\ params = NoParams /\ called = FALSE

FilterIdle ==
    /\ export_condition_id = None /\ row = NoRow /\ result = "unset"

PagingIdle ==
    /\ page = 1 /\ token = None /\ ppc = "off" /\ run = 0 /\ startPage = 1
    /\ requested = <<>> /\ attempts = 0 /\ meta = NoMeta /\ nresp = 0
    /\ inOrder = TRUE /\ remaining = 0 /\ budget = 0 /\ raised = "none"

GraphIdle ==
    /\ emitted = <<>> /\ children = <<>> /\ cpc = "idle" /\ cctx = NoContext

(***************************************************************************)
(* Responses.  A response is its status code and what the body holds:      *)
(*   text_has_type  the text contains the substring RateLimit-Type         *)
(*   json_ok        the body parses as a JSON object                       *)
(*   rl_type        the value under the key RateLimit-Type                 *)
(*   retry_fmt      RateLimit-Retry-After: absent, bad (not in the format  *)
(*                  YYYY-MM-DD HH:mm:ss z) or ok                           *)
(*   retry_after    the instant it names when retry_fmt = "ok"             *)
(* status 0 stands for a requests.exceptions.RequestException raised by    *)
(* the send itself (no response).                                          *)
(***************************************************************************)
NoBody == [text_has_type |-> FALSE, json_ok |-> TRUE, rl_type |-> "absent",
           retry_fmt |-> "absent", retry_after |-> None]

PlainResponse(s) == [status |-> s] @@ NoBody

RetryDeltas == {-2, 0, 3}

ThrottleBodies(t) ==
    \* the substring is there, the body is not JSON
    {[text_has_type |-> TRUE, json_ok |-> FALSE, rl_type |-> "absent",
      retry_fmt |-> "absent", retry_after |-> None]}
    \cup
    {[text_has_type |-> TRUE, json_ok |-> TRUE, rl_type |-> ty,
      retry_fmt |-> f, retry_after |-> None] :
        ty \in {"Daily limiter", "Minute limiter", "absent"}, f \in {"absent", "bad"}}
    \cup
    {[text_has_type |-> TRUE, json_ok |-> TRUE, rl_type |-> ty,
      retry_fmt |-> "ok", retry_after |-> t + d] :
        ty \in {"Daily limiter", "Minute limiter", "absent"},
        d \in {x \in RetryDeltas : t + x >= 0}}

Responses(t) ==
    {PlainResponse(s) : s \in {0, 200, 404, 429, 500}}
    \cup {[status |-> 429] @@ b : b \in ThrottleBodies(t)}
    \cup {[status |-> 200] @@ b : b \in {x \in ThrottleBodies(t) : x.rl_type = "absent" /\ x.retry_fmt = "absent"}}

NoResponse == PlainResponse(None)

IsDaily(r) == r.status = 429 /\ r.json_ok /\ r.rl_type = "Daily limiter"

(***************************************************************************)
(* validate_response.  An outcome is [kind, wait]: kind is "ok" (returns), *)
(* "retriable" (RetriableAPIError or RequestException) or "fatal"          *)
(* (FatalAPIError); wait is the time validate_response itself slept.       *)
(***************************************************************************)
Outcome(k, w) == [kind |-> k, wait |-> w]

\* RESTStream.validate_response, reached through super(): 5xx is retriable,
\* 4xx is fatal; whether a bare 429 is retried depends on the installed SDK.
RESTStream_validate_response(r) ==
    IF r.status >= 500 THEN {Outcome("retriable", 0)}
    ELSE IF r.status = 429 THEN {Outcome("retriable", 0), Outcome("fatal", 0)}
    ELSE IF r.status >= 400 THEN {Outcome("fatal", 0)}
    ELSE {Outcome("ok", 0)}

\* the wait without its floor of one second (the mutant of seconds_to_wait)
seconds_to_wait_no_floor(r, t) ==
    IF ~r.json_ok \/ r.rl_type = "Daily limiter" \/ r.retry_fmt # "ok" THEN 1
    ELSE r.retry_after - t

\* The try block of validate_response: the value of seconds_to_wait when the
\* block is left, normally or through `except Exception`.  FatalAPIError is
\* an Exception, so the handler catches the daily-limit raise as well.
seconds_to_wait(r, t) ==
    IF ~r.json_ok THEN 1                      \* response.json() raises
    ELSE IF r.rl_type = "Daily limiter" THEN 1  \* raise FatalAPIError, caught
    ELSE IF r.retry_fmt # "ok" THEN 1         \* from_format raises
    ELSE Max(r.retry_after - t, 1)

\* validate_response that waits and then forgets to raise (a mutant of
\* validate_response)
validate_response_no_raise(r, t) ==
    IF r.status = 429 /\ r.text_has_type
    THEN {Outcome("ok", seconds_to_wait(r, t))}
    ELSE RESTStream_validate_response(r)

\* PrecoroStream.validate_response
validate_response(r, t) ==
    IF r.status = 429 /\ r.text_has_type
    THEN {Outcome("retriable", seconds_to_wait(r, t))}
    ELSE RESTStream_validate_response(r)

(***************************************************************************)
(* request_decorator: backoff.on_exception(..., max_tries).                *)
(***************************************************************************)
\* a retry loop that gives up one attempt late (the mutant of max_tries_exceeded)
max_tries_exceeded_late(n) == n = backoff_max_tries + 1

\* backoff gives up when the failed attempt was attempt number max_tries
max_tries_exceeded(n) == n = backoff_max_tries

\* _request without its pause (the mutant of request_sleep)
request_no_sleep(slack) == 0

\* the time _request spends in time.sleep(1) before every send
request_sleep(slack) == 1 + slack

InitRequest ==
    /\ now = 0
    /\ rpc = "idle"
    /\ nreq = 0
    /\ tries = 0
    /\ nSends = 0
    /\ firstSend = None
    /\ prevSend = None
    /\ lastSend = None
    /\ inflight = 0
    /\ resp = NoResponse
    /\ recvAt = 0
    /\ outcome = Outcome("none", 0)
    /\ surfaced = "none"
    /\ PagingIdle
    /\ ParamsIdle
    /\ FilterIdle
    /\ GraphIdle

\* request_records hands the next prepared request to the decorated _request.
NewRequest ==
    /\ rpc = "idle"
    /\ nreq < MaxRequests
    /\ nreq' = nreq + 1
    /\ tries' = 0
    /\ rpc' = "call"
    /\ resp' = NoResponse
    /\ outcome' = Outcome("none", 0)
    /\ UNCHANGED <<now, nSends, firstSend, prevSend, lastSend, inflight, recvAt, surfaced>>
    /\ UNCHANGED <<pageVars, parVars, filVars, graVars>>

\* _request up to the send: time.sleep(1), then the request leaves.
Send ==
    /\ rpc = "call"
    /\ \E slack \in Slack :
        /\ now' = now + request_sleep(slack)
        /\ lastSend' = now'
    /\ nSends' = nSends + 1
    /\ firstSend' = IF nSends = 0 THEN lastSend' ELSE firstSend
    /\ prevSend' = lastSend
    /\ tries' = tries + 1
    /\ inflight' = inflight + 1
    /\ rpc' = "sent"
    /\ UNCHANGED <<nreq, resp, recvAt, outcome, surfaced>>
    /\ UNCHANGED <<pageVars, parVars, filVars, graVars>>

\* The rest of _request: the response (or the transport error) arrives,
\* validate_response runs, and backoff decides what the exception becomes.
Receive ==
    /\ rpc = "sent"
    /\ \E latency \in Slack :
       \E r \in Responses(now + latency) :
       \E o \in (IF r.status = 0 THEN {Outcome("retriable", 0)}
                 ELSE validate_response(r, now + latency)) :
        /\ resp' = r
        /\ recvAt' = now + latency
        /\ outcome' = o
        /\ now' = now + latency + o.wait
        /\ inflight' = inflight - 1
        /\ IF o.kind = "ok" THEN rpc' = "idle" /\ surfaced' = "none"
           ELSE IF o.kind = "fatal" THEN rpc' = "aborted" /\ surfaced' = "FatalAPIError"
           ELSE IF max_tries_exceeded(tries)
                THEN rpc' = "aborted" /\ surfaced' = "RetriableAPIError"
                ELSE rpc' = "backoff" /\ surfaced' = "none"
    /\ UNCHANGED <<nreq, tries, nSends, firstSend, prevSend, lastSend>>
    /\ UNCHANGED <<pageVars, parVars, filVars, graVars>>

\* backoff sleeps its jittered wait, then calls _request again.
Backoff ==
    /\ rpc = "backoff"
    /\ \E w \in Slack : now' = now + w
    /\ rpc' = "call"
    /\ UNCHANGED <<nreq, tries, nSends, firstSend, prevSend, lastSend, inflight, resp, recvAt, outcome, surfaced>>
    /\ UNCHANGED <<pageVars, parVars, filVars, graVars>>

NextRequest == NewRequest \/ Send \/ Receive \/ Backoff

SpecRequest == InitRequest /\ [][NextRequest]_vars

\* the last response has been through validate_response
Answered == rpc \in {"idle", "aborted", "backoff"} /\ resp # NoResponse

(***************************************************************************)
(* Claims about the request loop.                                          *)
(***************************************************************************)

\* C1 (as stated): a 429 whose body carries RateLimit-Type = "Daily limiter"
\* ends in FatalAPIError whatever RateLimit-Retry-After holds: the outcome is
\* fatal, the error leaves the retry loop and the request is not sent again.
C1_DailyLimitIsFatal ==
    (Answered /\ IsDaily(resp) /\ resp.text_has_type) =>
        /\ outcome.kind = "fatal"
        /\ rpc = "aborted"
        /\ surfaced = "FatalAPIError"

\* C5: any two consecutive sends of the process start at least 1 second
\* apart, so the N sends so far span at least N-1 seconds, and at most one
\* request is in flight at any time.
C5_MinimumSpacing ==
    /\ nSends >= 2 => lastSend - prevSend >= 1
    /\ nSends >= 1 => lastSend - firstSend >= nSends - 1
    /\ inflight \in {0, 1}

\* C5 witness: a first attempt, its retry and the next request's first attempt
\* have all been sent.
C5_Witness ==
    /\ nSends >= 3
    /\ nreq = 2
    /\ lastSend - prevSend = 1

\* the wait C6 names for a throttle response read at time t
C6_ExpectedWait(r, t) ==
    IF r.json_ok /\ r.retry_fmt = "ok" /\ r.retry_after - t > 1
    THEN r.retry_after - t
    ELSE 1

\* C6 (as stated): every 429 that is not a daily-quota exhaustion makes
\* validate_response wait max(1, retry_after - now) when the hint parses and
\* 1 second when it is missing or unparseable, and is then retriable.
C6_Every429Waits ==
    (Answered /\ resp.status = 429 /\ ~IsDaily(resp)) =>
        /\ outcome.kind = "retriable"
        /\ outcome.wait = C6_ExpectedWait(resp, recvAt)

\* C6 (amended): the same, for the 429 responses whose body text contains
\* RateLimit-Type; a 429 without it goes to the base class's validation and
\* validate_response does not wait for it.
C6_TypedThrottleWaits ==
    /\ (Answered /\ resp.status = 429 /\ resp.text_has_type /\ ~IsDaily(resp)) =>
            /\ outcome.kind = "retriable"
            /\ outcome.wait = C6_ExpectedWait(resp, recvAt)
            /\ now = recvAt + outcome.wait
    /\ (Answered /\ resp.status = 429 /\ ~resp.text_has_type) => outcome.wait = 0

\* C6 witness: a retry-after 3 seconds ahead has been waited out.
C6_Witness ==
    /\ Answered
    /\ resp.status = 429 /\ resp.rl_type = "Minute limiter"
    /\ resp.retry_fmt = "ok" /\ resp.retry_after = recvAt + 3
    /\ outcome = Outcome("retriable", 3)

C7_Attempts ==
    /\ tries <= backoff_max_tries
    /\ nSends <= nreq * backoff_max_tries
    /\ rpc = "backoff" => outcome.kind = "retriable" /\ surfaced = "none"
    /\ (Answered /\ outcome.kind = "retriable") =>
            IF tries < backoff_max_tries
            THEN rpc = "backoff" /\ surfaced = "none"
            ELSE rpc = "aborted" /\ surfaced = "RetriableAPIError"
    /\ surfaced = "RetriableAPIError" => tries = backoff_max_tries
    \* the loop never stalls: with the attempts bounded, it ends
    /\ rpc \in {"call", "sent", "backoff"} => ENABLED (Send \/ Receive \/ Backoff)

C7_RetryStep ==
    /\ rpc = "backoff" => rpc' = "call" /\ tries' = tries /\ nreq' = nreq
    /\ rpc = "call" => rpc' = "sent" /\ tries' = tries + 1 /\ nreq' = nreq

\* C7: a logical request is sent at most backoff_max_tries times; a retriable
\* failure before the last attempt is absorbed and followed by another
\* attempt, one on the last attempt leaves the loop as the error; the loop
\* can always take its next step and every step but a retry's send ends the
\* request or uses up an attempt, so every logical request ends in success
\* or abandonment.
C7_BoundedRetry ==
    /\ []C7_Attempts
    /\ [][C7_RetryStep]_vars

\* C7 witness: the last allowed attempt failed retriably and the error left
\* the loop.
C7_Witness ==
    /\ rpc = "aborted"
    /\ tries = backoff_max_tries
    /\ outcome.kind = "retriable"
    /\ surfaced = "RetriableAPIError"


(***************************************************************************)
(* Pagination.                                                             *)
(***************************************************************************)
\* A truthy Python value: neither None nor 0.
Truthy(x) == x # None /\ x # 0

\* get_next_page_token that stops one page before the last (the mutant of
\* get_next_page_token)
get_next_page_token_early(pg, m, previous_token) ==
    IF m.has
    THEN IF m.current_page >= m.total_pages - 1
         THEN [page |-> None, token |-> None, raised |-> "none"]
         ELSE IF pg = None
              THEN [page |-> None, token |-> None, raised |-> "TypeError"]
              ELSE [page |-> pg + 1, token |-> pg + 1, raised |-> "none"]
    ELSE [page |-> pg, token |-> None, raised |-> "none"]

\* get_next_page_token: the new self.page, the value returned and the
\* exception raised.  previous_token is not read.  None += 1 is a TypeError.
get_next_page_token(pg, m, previous_token) ==
    IF m.has
    THEN IF m.current_page = m.total_pages
         THEN [page |-> None, token |-> None, raised |-> "none"]
         ELSE IF pg = None
              THEN [page |-> None, token |-> None, raised |-> "TypeError"]
              ELSE [page |-> pg + 1, token |-> pg + 1, raised |-> "none"]
    ELSE [page |-> pg, token |-> None, raised |-> "none"]

\* PrecoroStream.get_url_params, the page parameter: None when it is left out
page_param(next_page_token) ==
    IF Truthy(next_page_token) THEN next_page_token ELSE None

\* what the server answers to one attempt of a sync: a transport error, a
\* page, a client or server error, a bare 429 or a minute-limit 429
AttemptResponses ==
    {r \in Responses(0) :
        \/ ~r.text_has_type
        \/ r.status = 429 /\ r.json_ok /\ r.rl_type = "Minute limiter" /\ r.retry_fmt = "absent"}

\* what _request makes of it: a RequestException when the send failed,
\* otherwise what validate_response does
AttemptOutcomes(r) ==
    IF r.status = 0 THEN {Outcome("retriable", 0)} ELSE validate_response(r, 0)

(***************************************************************************)
(* Query parameters.                                                       *)
(***************************************************************************)
Streams == {"taxes", "invoices", "invoices_details", "suppliers", "items",
            "expenses", "expenses_details"}

\* the class attribute replication_key is set (to "updateDate")
replication_key(st) == st \in {"invoices", "suppliers", "items", "expenses"}

IsTransactions(st) == st \in {"invoices", "expenses"}

\* strftime('%Y-%m-%dT%H:%M:%S'): the wall-clock reading, the offset dropped
strftime(ts) == ts.wall

\* get_starting_time that prefers the configured start (the mutant of
\* get_starting_time)
get_starting_time_config_first(start_date, rep_key) ==
    IF start_date.set THEN start_date ELSE rep_key

\* get_starting_time that reads the value the run's records have written to
\* the stream state (a mutant of get_starting_time)
get_starting_time_latest_record(start_date, rep_key) ==
    IF progress # None THEN [set |-> TRUE, wall |-> progress, off |-> 0]
    ELSE IF rep_key.set THEN rep_key ELSE start_date

\* get_starting_time: `rep_key or start_date`, rep_key being what
\* get_starting_timestamp reads from the stream's persisted state
get_starting_time(start_date, rep_key) ==
    IF rep_key.set THEN rep_key ELSE start_date

\* PrecoroStream.get_url_params
PrecoroStream_get_url_params(st, cfg, bm, next_page_token) ==
    LET start_date == get_starting_time(cfg.start_date, bm) IN
    [NoParams EXCEPT
        !.page = page_param(next_page_token),
        !.modifiedSince = IF replication_key(st) /\ start_date.set
                          THEN strftime(start_date) ELSE None]

\* the status maps of TransactionsStream and SuppliersStream
invoice_status ==
    [open |-> 0, pending |-> 1, approved |-> 2, denied |-> 3, partly_paid |-> 4,
     paid |-> 5, awaiting_confirmation |-> 6, on_revise |-> 7, canceled |-> 8,
     pending_receipt |-> 9]
sup_status_map == [approved |-> 2, pending |-> 1, rejected |-> 3]

\* [m.get(status.lower()) for status in statuses if status in m], statuses
\* being the stripped names: the test is made on the name as written
RECURSIVE status_codes(_, _)
status_codes(m, names) ==
    IF names = <<>> THEN <<>>
    ELSE LET h == Head(names) IN
         (IF ~h.upper /\ h.name \in DOMAIN m THEN <<m[h.name]>> ELSE <<>>)
         \o status_codes(m, Tail(names))

\* TransactionsStream.get_url_params
TransactionsStream_get_url_params(st, cfg, bm, next_page_token) ==
    LET base == PrecoroStream_get_url_params(st, cfg, bm, next_page_token)
        withStatus ==
            IF cfg.all_invoices THEN base
            ELSE IF cfg.statuses # <<>>
            THEN [base EXCEPT !.has_status = TRUE,
                              !.status = status_codes(invoice_status, cfg.statuses)]
            ELSE [base EXCEPT !.has_status = TRUE, !.status = <<2>>]
    IN  IF cfg.approval_date.set
        THEN [withStatus EXCEPT !.approvalLeftDate = strftime(cfg.approval_date)]
        ELSE withStatus

\* SuppliersStream.get_url_params
SuppliersStream_get_url_params(st, cfg, bm, next_page_token) ==
    LET base == PrecoroStream_get_url_params(st, cfg, bm, next_page_token) IN
    IF cfg.supplier_status # <<>>
    THEN [base EXCEPT !.has_status = TRUE,
                      !.status = status_codes(sup_status_map, cfg.supplier_status)]
    ELSE base

\* get_url_params as the stream's class resolves it
get_url_params(st, cfg, bm, next_page_token) ==
    IF IsTransactions(st) THEN TransactionsStream_get_url_params(st, cfg, bm, next_page_token)
    ELSE IF st = "suppliers" THEN SuppliersStream_get_url_params(st, cfg, bm, next_page_token)
    ELSE PrecoroStream_get_url_params(st, cfg, bm, next_page_token)

\* comma-separated status settings, split
StatusSettings ==
    {<<>>,
     <<StatusName("paid", FALSE, FALSE)>>,
     <<StatusName("approved", FALSE, TRUE), StatusName("paid", TRUE, FALSE)>>,
     <<StatusName("pending", FALSE, FALSE), StatusName("bogus", FALSE, FALSE),
       StatusName("approved", FALSE, FALSE)>>}

ParamConfigs ==
    {[DefaultConfig EXCEPT !.start_date = sd, !.all_invoices = ai, !.statuses = ss,
                           !.supplier_status = su, !.approval_date = ad] :
        sd \in OptTimes, ai \in BOOLEAN, ss \in StatusSettings,
        su \in {<<>>, <<StatusName("rejected", FALSE, TRUE), StatusName("pending", TRUE, FALSE)>>},
        ad \in {NoTime, [set |-> TRUE, wall |-> 1, off |-> 0]}}

InitParams ==
    /\ config \in ParamConfigs
    /\ bookmark \in OptTimes
    /\ progress = None
    /\ stream = "none"
    /\ argToken = None
    /\ params = NoParams
    /\ called = FALSE
    /\ RequestIdle
    /\ resp = NoResponse
    /\ outcome = Outcome("none", 0)
    /\ PagingIdle
    /\ FilterIdle
    /\ GraphIdle

\* prepare_request calls get_url_params(context, next_page_token).
CallGetUrlParams ==
    /\ \E st \in Streams, tk \in {None, 0} \cup 2..MaxPages :
        /\ stream' = st
        /\ argToken' = tk
        /\ params' = get_url_params(st, config, bookmark, tk)
    /\ called' = TRUE
    /\ UNCHANGED <<config, bookmark, progress>>
    /\ UNCHANGED <<reqVars, pageVars, filVars, graVars>>

NextParams == CallGetUrlParams

SpecParams == InitParams /\ [][NextParams]_vars

\* the later of two timestamps, both when they name the same instant
Later(a, b) ==
    IF Instant(a) > Instant(b) THEN {a}
    ELSE IF Instant(b) > Instant(a) THEN {b}
    ELSE {a, b}

\* C4 (as stated): for a stream with a replication key, modifiedSince is the
\* later of start_date and the persisted timestamp when both are present, the
\* one that is present when only one is, and left out when neither is; a
\* stream without a replication key never sends it.
C4_LaterOfTheTwo ==
    called =>
        IF ~replication_key(stream) THEN params.modifiedSince = None
        ELSE IF config.start_date.set /\ bookmark.set
        THEN params.modifiedSince \in {strftime(x) : x \in Later(config.start_date, bookmark)}
        ELSE IF config.start_date.set THEN params.modifiedSince = strftime(config.start_date)
        ELSE IF bookmark.set THEN params.modifiedSince = strftime(bookmark)
        ELSE params.modifiedSince = None

\* C4 (amended): for a stream with a replication key, modifiedSince is the
\* persisted timestamp whenever one is present, also when start_date is the
\* later of the two; it is start_date when only start_date is present, and
\* left out when neither is; a stream without a replication key never sends it.
C4_PersistedFirst ==
    called =>
        IF ~replication_key(stream) THEN params.modifiedSince = None
        ELSE IF bookmark.set THEN params.modifiedSince = bookmark.wall
        ELSE IF config.start_date.set THEN params.modifiedSince = config.start_date.wall
        ELSE params.modifiedSince = None

\* C4 witness: start_date is later than the persisted timestamp and the
\* request carries the persisted one.
C4_Witness ==
    /\ called
    /\ stream = "invoices"
    /\ config.start_date.set /\ bookmark.set
    /\ Instant(config.start_date) > Instant(bookmark)
    /\ config.start_date.wall # bookmark.wall
    /\ params.modifiedSince = bookmark.wall

(***************************************************************************)
(* The export-condition filter.                                            *)
(***************************************************************************)
\* str(): the text, as a string
str(val) == Value(val.v, FALSE)

\* the fields of data whose documentCustomField id is cf_id, in order
record_dcf_ec(data, cf_id) == SelectSeq(data, LAMBDA dcf : dcf.cf_id = cf_id)

\* post_process that also drops every record whose status is not 2 (the
\* mutant of post_process)
post_process_approved_only(cfg, cached_id, r) ==
    LET ec == cfg.export_condition IN
    IF r.status # 2 THEN [result |-> "none", export_condition_id |-> cached_id]
    ELSE IF ~ec.set THEN [result |-> "row", export_condition_id |-> cached_id]
    ELSE IF cached_id = None /\ ~ec.castable
    THEN [result |-> "error", export_condition_id |-> cached_id]
    ELSE LET cf_id == IF cached_id = None THEN ec.id ELSE cached_id
             matching == SelectSeq(r.data, LAMBDA dcf : dcf.cf_id = cf_id)
         IN  IF r.dcf # "object"
             THEN [result |-> "error", export_condition_id |-> cf_id]
             ELSE IF matching # <<>> /\ matching[1].value = Value(ec.value, FALSE)
             THEN [result |-> "row", export_condition_id |-> cf_id]
             ELSE [result |-> "none", export_condition_id |-> cf_id]

\* InvoicesStream.post_process: what it does with the row, and
\* self.export_condition_id afterwards.  int() of an id that is no number
\* raises; iterating None (no dataDocumentCustomFields, or no data in it)
\* and calling .get on a list both raise.
post_process(cfg, cached_id, r) ==
    LET ec == cfg.export_condition IN
    IF ~ec.set THEN [result |-> "row", export_condition_id |-> cached_id]
    ELSE IF cached_id = None /\ ~ec.castable
    THEN [result |-> "error", export_condition_id |-> cached_id]
    ELSE LET cf_id == IF cached_id = None THEN ec.id ELSE cached_id
             allowed_value == str(Value(ec.value, ec.numeric))
             matching == record_dcf_ec(r.data, cf_id)
         IN  IF r.dcf # "object"
             THEN [result |-> "error", export_condition_id |-> cf_id]
             ELSE IF matching # <<>> /\ matching[1].value = allowed_value
             THEN [result |-> "row", export_condition_id |-> cf_id]
             ELSE [result |-> "none", export_condition_id |-> cf_id]

Values == {Value("A", FALSE), Value("B", FALSE), Value("5", FALSE), Value("5", TRUE)}
Fields == {Field(i, val) : i \in {7, 8}, val \in Values} \cup {Field(None, Value("A", FALSE))}
DataLists == {<<>>} \cup {<<f>> : f \in Fields} \cup {<<f, g>> : f \in Fields, g \in Fields}
Idns == [x \in {1, 2} |-> IF x = 1 THEN "INV-1" ELSE "INV-2"]
Records ==
    {Record(i, Idns[i], st, "object", d) : i \in DOMAIN Idns, st \in {2, 5}, d \in DataLists}
    \cup {Record(i, Idns[i], st, sh, <<>>) : i \in DOMAIN Idns, st \in {2, 5}, sh \in {"missing", "array"}}

ExportConditions ==
    {NoExportCondition,
     [set |-> TRUE, id |-> 7, castable |-> TRUE, value |-> "A", numeric |-> FALSE],
     [set |-> TRUE, id |-> 7, castable |-> TRUE, value |-> "5", numeric |-> TRUE],
     [set |-> TRUE, id |-> 0, castable |-> FALSE, value |-> "A", numeric |-> FALSE]}

InitFilter ==
    /\ config \in {[DefaultConfig EXCEPT !.export_condition = ec] : ec \in ExportConditions}
    /\ export_condition_id = None
    /\ row = NoRow
    /\ result = "unset"
    /\ GraphIdle
    /\ bookmark = NoTime /\ progress = None /\ stream = "none"
    /\ argToken = None /\ params = NoParams /\ called = FALSE
    /\ RequestIdle
    /\ resp = NoResponse
    /\ outcome = Outcome("none", 0)
    /\ PagingIdle

\* get_records calls post_process(record, context) on the next record.
CallPostProcess ==
    /\ result # "error"
    /\ \E r \in Records :
        LET p == post_process(config, export_condition_id, r) IN
        /\ row' = r
        /\ result' = p.result
        /\ export_condition_id' = p.export_condition_id
    /\ UNCHANGED <<reqVars, pageVars, parVars, graVars>>

NextFilter == CallPostProcess

SpecFilter == InitFilter /\ [][NextFilter]_vars

\* the first custom field of the row with the configured id has the
\* configured value (as text)
MeetsExportCondition(ec, r) ==
    \E i \in 1..Len(r.data) :
        /\ r.data[i].cf_id = ec.id
        /\ \A j \in 1..(i - 1) : r.data[j].cf_id # ec.id
        /\ r.data[i].value = Value(ec.value, FALSE)

\* C9 (as stated): with an export condition {id, value} (id a number)
\* configured, post_process returns the record iff it has a custom field with
\* that id and the first such field has the configured value; a record
\* without such a field, or with another value, is skipped (none) and no
\* error is raised; without an export condition every record passes.
C9_ExportConditionFilter ==
    (result # "unset" /\ config.export_condition.castable) =>
        IF ~config.export_condition.set THEN result = "row"
        ELSE IF MeetsExportCondition(config.export_condition, row) THEN result = "row"
        ELSE result = "none"


(***************************************************************************)
(* The sync of a stream: request_records around get_url_params, the        *)
(* decorated _request and get_next_page_token; get_records around          *)
(* post_process; the child sub-run started for every record yielded.       *)
(***************************************************************************)
\* records the server holds for one process
MaxRecords == 2

\* parent_stream_type, read from the parent's side
ChildOf(st) ==
    IF st = "invoices" THEN "invoices_details"
    ELSE IF st = "expenses" THEN "expenses_details"
    ELSE "none"

\* the class attribute path of a child stream: the text before the braces
\* and the context key between them
path(st) ==
    IF st = "invoices_details" THEN [prefix |-> "/invoices/", key |-> "invoice_id"]
    ELSE [prefix |-> "/expenses/", key |-> "expense_idn"]

\* get_child_context with a key the child's path does not name (the mutant
\* of get_child_context)
get_child_context_wrong_key(st, r) ==
    IF st = "invoices" THEN Context("invoice_idn", r.idn)
    ELSE IF st = "expenses" THEN Context("expense_id", r.idn)
    ELSE NoContext

\* InvoicesStream.get_child_context, ExpensesStream.get_child_context
get_child_context(st, r) ==
    IF st = "invoices" THEN Context("invoice_id", r.idn)
    ELSE IF st = "expenses" THEN Context("expense_idn", r.idn)
    ELSE NoContext

\* the child's URL: the context substituted into its path; a key the
\* context does not hold stays as written
get_url(st, ctx) ==
    <<path(st).prefix, IF ctx.key = path(st).key THEN ctx.value ELSE "{" \o path(st).key \o "}">>

\* post_process as the stream's class resolves it: only InvoicesStream
\* overrides it
stream_post_process(st, cfg, cached_id, r) ==
    IF st = "invoices" THEN post_process(cfg, cached_id, r)
    ELSE [result |-> "row", export_condition_id |-> cached_id]

\* the records a page holds in the runs followed here: an approved one
\* (id 1, status 2) and a paid one (id 2, status 5), with or without the
\* custom field of the export condition
PageRecords ==
    {r \in Records :
        /\ r.status = (IF r.id = 1 THEN 2 ELSE 5)
        /\ r.dcf # "array"
        /\ Len(r.data) <= 1
        /\ \A i \in 1..Len(r.data) :
            r.data[i].cf_id = 7 /\ r.data[i].value \in {Value("A", FALSE), Value("B", FALSE)}}

\* the replication-key value (updateDate) of the records followed here: the
\* record with the higher id was modified later; the server returns them in
\* any order
updateDate(r) == r.id

\* the stream state after a record: the progress marker moves to the
\* record's replication-key value unless that is older than the marker
increment_state(old, new) ==
    IF old = None \/ new >= old THEN new ELSE old

\* what of a record the logs keep
Emitted(r) == [id |-> r.id, idn |-> r.idn, status |-> r.status]

\* Stream.sync: request_records starts with next_page_token = None; self.page
\* is whatever the object holds.
BeginRun ==
    /\ run' = run + 1
    /\ startPage' = page
    /\ token' = None
    /\ requested' = <<>>
    /\ attempts' = 0
    /\ meta' = NoMeta
    /\ nresp' = 0
    /\ inOrder' = TRUE
    /\ ppc' = "prepare"
    /\ UNCHANGED <<page, remaining, budget, raised>>
    /\ UNCHANGED <<reqVars, parVars, filVars, graVars>>

\* A child stream object is synced again for the next parent record.
StartRun ==
    /\ ppc \in {"idle", "done"}
    /\ run < MaxRuns
    /\ BeginRun

\* Tap.sync_all syncs the parent stream, once.
SyncParent ==
    /\ ppc = "idle"
    /\ run = 0
    /\ BeginRun

\* prepare_request: get_url_params builds the query of the next logical
\* request.
Prepare ==
    /\ ppc = "prepare"
    /\ Len(requested) <= MaxPages
    /\ params' = get_url_params(stream, config, bookmark, token)
    /\ argToken' = token
    /\ called' = TRUE
    /\ requested' = Append(requested, params'.page)
    /\ attempts' = 0
    /\ ppc' = "call"
    /\ UNCHANGED <<page, token, run, startPage, meta, nresp, inOrder, remaining, budget, raised>>
    /\ UNCHANGED <<config, bookmark, progress, stream>>
    /\ UNCHANGED <<reqVars, filVars, graVars>>

\* One attempt of the decorated _request, and what backoff does with it.  A
\* success carries the body's pagination metadata and records.  resp is the
\* response of the attempt.
Attempt ==
    /\ ppc = "call"
    /\ attempts' = attempts + 1
    /\ \E r \in AttemptResponses : \E o \in AttemptOutcomes(r) :
        /\ resp' = r
        /\ IF o.kind = "ok"
           THEN \E m \in Metas, n \in 0..budget :
                   /\ meta' = m
                   /\ nresp' = nresp + 1
                   /\ inOrder' = (/\ inOrder
                                  /\ m.has
                                  /\ m.current_page = nresp + 1
                                  /\ nresp > 0 => m.total_pages = meta.total_pages)
                   /\ remaining' = n
                   /\ budget' = budget - n
                   /\ ppc' = "page"
                   /\ raised' = "none"
           ELSE /\ UNCHANGED <<meta, nresp, inOrder, remaining, budget>>
                /\ IF o.kind = "fatal" THEN ppc' = "aborted" /\ raised' = "FatalAPIError"
                   ELSE IF max_tries_exceeded(attempts')
                        THEN ppc' = "aborted" /\ raised' = "RetriableAPIError"
                        ELSE ppc' = "call" /\ raised' = "none"
    /\ UNCHANGED <<page, token, run, startPage, requested>>
    /\ UNCHANGED <<now, rpc, nreq, tries, nSends, firstSend, prevSend, lastSend, inflight, recvAt, outcome, surfaced>>
    /\ UNCHANGED <<parVars, filVars, graVars>>

\* get_records on the next record of the page: post_process; a record it
\* returns is yielded, its child context is made for _sync_children, and the
\* stream state of a stream with a replication key advances.
ProcessRecord ==
    /\ ppc = "page"
    /\ remaining > 0
    /\ cpc = "idle"
    /\ remaining' = remaining - 1
    /\ \E r \in PageRecords :
        LET p == stream_post_process(stream, config, export_condition_id, r) IN
        /\ row' = r
        /\ result' = p.result
        /\ export_condition_id' = p.export_condition_id
        /\ IF p.result = "error"
           THEN /\ ppc' = "aborted" /\ raised' = "TypeError"
                /\ UNCHANGED <<graVars, progress>>
           ELSE /\ UNCHANGED <<ppc, raised>>
                /\ IF p.result = "row"
                   THEN /\ emitted' = Append(emitted, Emitted(r))
                        /\ progress' = IF replication_key(stream)
                                       THEN increment_state(progress, updateDate(r))
                                       ELSE progress
                        /\ IF ChildOf(stream) # "none"
                           THEN cpc' = "pending" /\ cctx' = get_child_context(stream, r)
                           ELSE UNCHANGED <<cpc, cctx>>
                        /\ UNCHANGED children
                   ELSE UNCHANGED <<graVars, progress>>
    /\ UNCHANGED <<page, token, run, startPage, requested, attempts, meta, nresp, inOrder, budget>>
    /\ UNCHANGED <<config, bookmark, stream, argToken, params, called>>
    /\ UNCHANGED reqVars

\* _sync_children: the child stream is synced with the record's context; its
\* first request is prepared.
ChildStart ==
    /\ cpc = "pending"
    /\ children' = Append(children, [stream |-> ChildOf(stream), url |-> get_url(ChildOf(stream), cctx)])
    /\ cpc' = "call"
    /\ attempts' = 0
    /\ UNCHANGED <<emitted, cctx>>
    /\ UNCHANGED <<page, token, ppc, run, startPage, requested, meta, nresp, inOrder, remaining, budget, raised>>
    /\ UNCHANGED <<reqVars, parVars, filVars>>

\* One attempt of the child's request.  The detail endpoints answer with one
\* object and no pagination metadata, so a success ends the sub-run.
ChildAttempt ==
    /\ cpc = "call"
    /\ attempts' = attempts + 1
    /\ \E r \in AttemptResponses : \E o \in AttemptOutcomes(r) :
        /\ resp' = r
        /\ IF o.kind = "ok" THEN cpc' = "idle" /\ UNCHANGED <<ppc, raised>>
           ELSE IF o.kind = "fatal"
           THEN cpc' = "aborted" /\ ppc' = "aborted" /\ raised' = "FatalAPIError"
           ELSE IF max_tries_exceeded(attempts')
           THEN cpc' = "aborted" /\ ppc' = "aborted" /\ raised' = "RetriableAPIError"
           ELSE UNCHANGED <<cpc, ppc, raised>>
    /\ UNCHANGED <<emitted, children, cctx>>
    /\ UNCHANGED <<page, token, run, startPage, requested, meta, nresp, inOrder, remaining, budget>>
    /\ UNCHANGED <<now, rpc, nreq, tries, nSends, firstSend, prevSend, lastSend, inflight, recvAt, outcome, surfaced>>
    /\ UNCHANGED <<parVars, filVars>>

\* The end of one turn of request_records, after the page's records have been
\* yielded: get_next_page_token, the loop check, and `finished`.
NextPage ==
    /\ ppc = "page"
    /\ remaining = 0
    /\ cpc = "idle"
    /\ LET n == get_next_page_token(page, meta, token) IN
        /\ page' = n.page
        /\ IF n.raised # "none"
           THEN /\ raised' = n.raised /\ ppc' = "aborted" /\ token' = token
           ELSE IF Truthy(n.token) /\ n.token = token
           THEN /\ raised' = "RuntimeError" /\ ppc' = "aborted" /\ token' = token
           ELSE /\ token' = n.token
                /\ raised' = "none"
                /\ ppc' = IF Truthy(n.token) THEN "prepare" ELSE "done"
    /\ UNCHANGED <<run, startPage, requested, attempts, meta, nresp, inOrder, remaining, budget>>
    /\ UNCHANGED <<reqVars, parVars, filVars, graVars>>

\* a stream object as constructed, before its first sync
Constructed ==
    /\ page = 1
    /\ token = None
    /\ ppc = "idle"
    /\ run = 0
    /\ startPage = 1
    /\ requested = <<>>
    /\ attempts = 0
    /\ meta = NoMeta
    /\ nresp = 0
    /\ inOrder = TRUE
    /\ remaining = 0
    /\ raised = "none"
    /\ export_condition_id = None
    /\ progress = None /\ argToken = None /\ params = NoParams /\ called = FALSE
    /\ row = NoRow /\ result = "unset"
    /\ GraphIdle
    /\ RequestIdle
    /\ resp = NoResponse
    /\ outcome = Outcome("none", 0)

\* The runs of one child stream object, whose endpoint pages.
InitPaging ==
    /\ Constructed
    /\ stream \in {"invoices_details", "expenses_details"}
    /\ config = DefaultConfig
    /\ bookmark = NoTime
    /\ budget = 0

NextPaging == StartRun \/ Prepare \/ Attempt \/ NextPage

SpecPaging == InitPaging /\ [][NextPaging]_vars

\* the default status filter, with and without an export condition
GraphConfigs ==
    {[DefaultConfig EXCEPT !.export_condition = ec] :
        ec \in {x \in ExportConditions : x.castable /\ ~x.numeric}}

\* The sync of a parent stream and of its child.
Init ==
    /\ Constructed
    /\ stream \in {"invoices", "expenses"}
    /\ config \in GraphConfigs
    /\ bookmark = NoTime
    /\ budget = MaxRecords

Next == SyncParent \/ Prepare \/ Attempt \/ ProcessRecord \/ ChildStart \/ ChildAttempt \/ NextPage

Spec == Init /\ [][Next]_vars

(***************************************************************************)
(* Claims about pagination.                                                *)
(***************************************************************************)

\* the last response of the run has been through get_next_page_token
Paged == ppc \in {"prepare", "call", "done"} /\ nresp >= 1

\* C2: in a run of a stream object (its first: self.page as constructed)
\* whose successful responses report current_page = 1, 2, ... of one
\* total_pages >= 1, the requests are page 1 (no page parameter), then the
\* tokens 2, 3, ... in order; there are never more than total_pages of them,
\* the loop goes on while fewer responses than total_pages have come, and
\* with the response numbered total_pages it ends with next token = none.
C2_PagesInOrder ==
    (startPage = 1 /\ inOrder /\ nresp >= 1 /\ meta.total_pages >= 1) =>
        /\ \A i \in 1..Len(requested) : requested[i] = IF i = 1 THEN None ELSE i
        /\ Len(requested) <= meta.total_pages
        /\ (Paged /\ nresp < meta.total_pages) =>
                /\ token = nresp + 1
                /\ ppc \in {"prepare", "call"}
        /\ (Paged /\ nresp = meta.total_pages) =>
                /\ token = None
                /\ ppc = "done"
                /\ Len(requested) = meta.total_pages
        /\ ppc = "done" => nresp = meta.total_pages

\* C2 witness: a run over three pages has ended.
C2_Witness ==
    /\ ppc = "done"
    /\ startPage = 1
    /\ inOrder
    /\ meta.total_pages = 3
    /\ requested = <<None, 2, 3>>

\* C3 (as stated): when a response carries pagination metadata with
\* total_pages = 0, get_next_page_token returns none and the loop ends
\* without requesting another page, whatever current_page is.
C3_ZeroTotalTerminates ==
    (Paged /\ meta.has /\ meta.total_pages = 0) =>
        /\ token = None
        /\ ppc = "done"



(***************************************************************************)
(* Claims about the sync of a parent stream.                               *)
(***************************************************************************)

\* neither all_invoices nor statuses is configured
DefaultStatusFilter(cfg) == ~cfg.all_invoices /\ cfg.statuses = <<>>

\* the step is get_records taking the next record of the page
RecordStep == remaining' < remaining

\* C8 (as stated): in a run of the invoices stream with the default status
\* filter every emitted record has status 2, whatever the pages hold.
C8_OnlyApprovedEmitted ==
    (stream = "invoices" /\ DefaultStatusFilter(config)) =>
        \A i \in 1..Len(emitted) : emitted[i].status = 2

\* C8 (amended): with the default status filter every request of the run
\* carries status[] = 2 and nothing else filters by status: every record the
\* server returns is emitted unless the export condition drops it, whatever
\* its status.
C8_ServerSideStatusFilter ==
    /\ []((called /\ IsTransactions(stream) /\ DefaultStatusFilter(config)) =>
            params.has_status /\ params.status = <<2>>)
    /\ [][(/\ RecordStep
           /\ stream = "invoices"
           /\ DefaultStatusFilter(config)
           /\ ~config.export_condition.set \/ row'.dcf = "object") =>
            IF \/ ~config.export_condition.set
               \/ MeetsExportCondition(config.export_condition, row')
            THEN emitted' = Append(emitted, Emitted(row'))
            ELSE emitted' = emitted]_vars

\* C8 witness: page 1 of 2 held {id 1, status 2}, page 2 of 2 held
\* {id 2, status 5}, and the run has ended with both emitted.
C8_Witness ==
    /\ stream = "invoices"
    /\ DefaultStatusFilter(config) /\ ~config.export_condition.set
    /\ ppc = "done"
    /\ requested = <<None, 2>>
    /\ inOrder /\ meta.total_pages = 2
    /\ emitted = <<[id |-> 1, idn |-> "INV-1", status |-> 2],
                   [id |-> 2, idn |-> "INV-2", status |-> 5]>>

\* the child sub-run C10 names for an emitted record of the parent
C10_ChildRun(st, e) ==
    IF st = "invoices"
    THEN [stream |-> "invoices_details", url |-> <<"/invoices/", e.idn>>]
    ELSE [stream |-> "expenses_details", url |-> <<"/expenses/", e.idn>>]

C10_Order ==
    \* one sub-run per emitted record, in emission order, on the record's idn
    /\ Len(children) <= Len(emitted)
    /\ \A i \in 1..Len(children) : children[i] = C10_ChildRun(stream, emitted[i])
    \* only the sub-run of the record emitted last can be outstanding
    /\ Len(children) = Len(emitted) - (IF cpc = "pending" THEN 1 ELSE 0)
    /\ cpc = "pending" =>
            /\ cctx = Context(IF stream = "invoices" THEN "invoice_id" ELSE "expense_idn",
                              emitted[Len(emitted)].idn)
            /\ ENABLED ChildStart

C10_Steps ==
    \* a sub-run starts for a record already emitted, and the parent emits
    \* nothing while a sub-run is outstanding or running
    /\ children' # children =>
            cpc = "pending" /\ emitted' = emitted /\ Len(children') = Len(emitted)
    /\ emitted' # emitted => cpc = "idle" /\ children' = children /\ cpc' = "pending"
    \* a record the export condition drops is not emitted and starts nothing
    /\ (/\ RecordStep
        /\ stream = "invoices"
        /\ config.export_condition.set
        /\ row'.dcf = "object"
        /\ ~MeetsExportCondition(config.export_condition, row')) =>
            emitted' = emitted /\ children' = children /\ cpc' = "idle"

\* C10: for every record a parent stream (invoices, expenses) emits (yields
\* from get_records), exactly one child sub-run is started, with the
\* record's idn substituted into the child's path, after the record was
\* emitted and in emission order; a record dropped by the export condition
\* is not emitted and starts no child sub-run.
C10_ChildPerRecord == []C10_Order /\ [][C10_Steps]_vars

\* C10 witness: of two invoices one was emitted and its sub-run started, the
\* other was dropped by the export condition.
C10_Witness ==
    /\ stream = "invoices"
    /\ config.export_condition.set
    /\ result = "none"
    /\ emitted = <<[id |-> 1, idn |-> "INV-1", status |-> 2]>>
    /\ children = <<[stream |-> "invoices_details", url |-> <<"/invoices/", "INV-1">>]>>
    /\ cpc = "idle"


(***************************************************************************)
(* The watermark within a run.                                             *)
(***************************************************************************)
\* The sync of an incremental stream without a child, from a persisted
\* state and a configured start date: each absent, the start date later than
\* the persisted timestamp when both are there.
InitWatermark ==
    /\ Constructed
    /\ stream = "items"
    /\ config \in {[DefaultConfig EXCEPT !.start_date = sd] :
                        sd \in {NoTime, [set |-> TRUE, wall |-> MaxTime, off |-> 0]}}
    /\ bookmark \in {NoTime, [set |-> TRUE, wall |-> 1, off |-> 0]}
    /\ budget = MaxRecords

NextWatermark == SyncParent \/ Prepare \/ Attempt \/ ProcessRecord \/ NextPage

SpecWatermark == InitWatermark /\ [][NextWatermark]_vars

\* the step is prepare_request building a request after the first of the run
LaterRequestStep == requested' # requested /\ Len(requested) >= 1

\* C11: within one run of an incremental stream the watermark is computed
\* anew for every page request (from the persisted timestamp, else the
\* configured start date), and the modifiedSince of a later request is never
\* earlier than that of the request before it, hence of any earlier request
\* of the run, whatever replication-key values the records read in between
\* carry.
C11_WatermarkNeverRegresses ==
    [][/\ (requested' # requested /\ replication_key(stream)) =>
            params'.modifiedSince =
                (IF bookmark.set THEN bookmark.wall
                 ELSE IF config.start_date.set THEN config.start_date.wall
                 ELSE None)
       /\ (LaterRequestStep /\ replication_key(stream)) =>
            params'.modifiedSince >= params.modifiedSince]_vars

\* C11 witness: the second request of a run has been built after a record
\* older than the watermark was read.
C11_Witness ==
    /\ replication_key(stream)
    /\ ppc = "call"
    /\ Len(requested) = 2
    /\ progress # None
    /\ params.modifiedSince # None
    /\ progress < params.modifiedSince


(***************************************************************************)
(* Claims about successive runs of one stream object.                      *)
(***************************************************************************)
\* the step is the end of a turn of request_records: get_next_page_token on
\* the response whose records have all been yielded
NextPageStep == ppc = "page" /\ remaining = 0 /\ cpc = "idle" /\ ppc' # "page"

\* C12 (as stated): every run of a stream object, also a later sub-run of
\* the same child stream object and a run after a completed paginated run,
\* starts at page 1 (no page parameter), and whenever a response carries
\* pagination metadata with current_page # total_pages, get_next_page_token
\* returns previous_token + 1 (an absent previous token counted as page 1)
\* without an error, whatever an earlier run left in self.page.
C12_RunsIndependent ==
    [][/\ (requested = <<>> /\ requested' # <<>>) => requested'[1] = None
       /\ (NextPageStep /\ meta.has /\ meta.current_page # meta.total_pages) =>
            /\ raised' = "none"
            /\ token' = (IF token = None THEN 1 ELSE token) + 1
            /\ ppc' = "prepare"]_vars


(***************************************************************************)
(* Claims about failed attempts.                                           *)
(***************************************************************************)
\* the step is an attempt, of the parent's request or of the child's
AttemptStep == attempts' = attempts + 1

\* the attempt of the step failed: no response, or one that is not a 2xx
FailedAttemptStep == AttemptStep /\ ~(resp'.status \in 200..299)

\* C13: a failed attempt changes nothing but the retry state: page token,
\* query parameters and the list of logical requests stay as they are (the
\* retry re-sends the same request), self.page is unchanged, nothing of the
\* failed response is read or emitted, and the run either retries the same
\* request or ends with the error; the attempt counter is zero again when the
\* next logical request (of the parent or of a child sub-run) is made.
C13_FailedAttemptFrame ==
    [][/\ FailedAttemptStep =>
            /\ UNCHANGED <<token, argToken, params, requested, page>>
            /\ UNCHANGED <<meta, nresp, remaining, budget>>
            /\ UNCHANGED <<emitted, children, cctx, progress, row, result>>
            /\ raised' \in {"none", "FatalAPIError", "RetriableAPIError"}
            /\ raised' = "none" => UNCHANGED <<ppc, cpc>>
            /\ raised' # "none" => ppc' = "aborted"
       /\ AttemptStep => UNCHANGED <<token, argToken, params, requested>>
       /\ (requested' # requested \/ children' # children) => attempts' = 0]_vars

\* C13 witness: the second logical request of a run failed with a 429 and
\* is about to be sent again: page 2, as before.
C13_Witness ==
    /\ ppc = "call"
    /\ resp.status = 429
    /\ attempts = 1
    /\ requested = <<None, 2>>
    /\ token = 2 /\ params.page = 2 /\ page = 2
    /\ Len(emitted) >= 1


(***************************************************************************)
(* Claims about the status filter.                                         *)
(***************************************************************************)
\* the codes, in order, of the listed names that trimmed and lower-cased are
\* known status names
RECURSIVE KnownStatusCodes(_)
KnownStatusCodes(names) ==
    IF names = <<>> THEN <<>>
    ELSE (IF Head(names).name \in DOMAIN invoice_status
          THEN <<invoice_status[Head(names).name]>> ELSE <<>>)
         \o KnownStatusCodes(Tail(names))

\* C14 (as stated): the status[] parameter of a transactions stream is
\* absent when all_invoices is set (also when statuses is set); otherwise,
\* with statuses configured, it is the list of the codes, in order, of every
\* listed name that after trimming and lower-casing is a known status name
\* (names match case-insensitively, unknown names contribute nothing);
\* otherwise it is the default 2.
C14_StatusParameter ==
    (called /\ IsTransactions(stream)) =>
        IF config.all_invoices THEN ~params.has_status
        ELSE IF config.statuses # <<>>
        THEN params.has_status /\ params.status = KnownStatusCodes(config.statuses)
        ELSE params.has_status /\ params.status = <<2>>

====
